---------------------------- MODULE Spec2Model ----------------------------
(***************************************************************************)
(* Model of tools/gen_postman_collection.py: the compiler that turns an    *)
(* OpenAPI document into a Postman collection.                             *)
(*                                                                         *)
(* Strings the program splits, slices or formats (path templates, URLs,    *)
(* parameter names) are sequences of one-character strings.  Strings the   *)
(* program only compares or copies (method keys, tags, scheme names) are   *)
(* TLA+ strings.  A Python dict is a record with a presence flag for every *)
(* optional key, or a sequence of entries where its order matters (dicts   *)
(* keep insertion order).                                                  *)
(***************************************************************************)
EXTENDS Naturals, Sequences, FiniteSets

VARIABLES
    openapi_spec,   \* the parsed document, main() line 199
    pc,             \* "create" | "write" | "done" | "error"
    k,              \* position of the loops of lines 125-126 in the traversal
    tag_groups,     \* the ordered dict of line 122: <<[tag, operations]>>
    items,          \* the folder list of line 137
    collection,     \* <<>> until create_postman_collection returns, then <<c>>
    written         \* what main() dumped to the output file: <<>> or <<c>>

vars == <<openapi_spec, pc, k, tag_groups, items, collection, written>>

---------------------------------------------------------------------------
(* Bounds of the input families *)

\* operations (path, method entries) in a document of the grouping family
MaxOps == 2
\* characters of a path template in the path family
MaxPathLen == 5
\* entries of a parameters list in the parameter family
MaxParams == 2
\* entries of a security list in the security family
MaxSecurity == 3

---------------------------------------------------------------------------
(* Strings *)

\* s contains t as a substring (Python: t in s)
Contains(s, t) ==
    \E i \in 1..(Len(s) - Len(t) + 1) : SubSeq(s, i, i + Len(t) - 1) = t

HasSlash(s) == \E i \in 1..Len(s) : s[i] = "/"

FirstSlash(s) == CHOOSE i \in 1..Len(s) : s[i] = "/" /\ \A j \in 1..(i-1) : s[j] # "/"

RECURSIVE split(_)
\* str.split('/')
split(s) ==
    IF ~HasSlash(s) THEN <<s>>
    ELSE <<SubSeq(s, 1, FirstSlash(s) - 1)>>
            \o split(SubSeq(s, FirstSlash(s) + 1, Len(s)))

RECURSIVE join(_)
\* '/'.join(parts)
join(parts) ==
    IF Len(parts) = 0 THEN <<>>
    ELSE IF Len(parts) = 1 THEN parts[1]
    ELSE parts[1] \o <<"/">> \o join(Tail(parts))

\* str.lower() on the method keys the families use
lower(method) ==
    CASE method = "GET" -> "get"
      [] method = "POST" -> "post"
      [] method = "PUT" -> "put"
      [] method = "TRACE" -> "trace"
      [] OTHER -> method

\* str.upper() on the method keys the families use
upper(method) ==
    CASE method = "get" -> "GET"
      [] method = "post" -> "POST"
      [] method = "put" -> "PUT"
      [] method = "trace" -> "TRACE"
      [] OTHER -> method

\* tag.title().replace('-', ' ') on the tags the families use
FolderName(tag) ==
    CASE tag = "untagged" -> "Untagged"
      [] tag = "users" -> "Users"
      [] tag = "kpi-defs" -> "Kpi Defs"
      [] tag = "metrics" -> "Metrics"
      [] OTHER -> tag

\* f"{{{{{name}}}}}"
Placeholder(name) == <<"{", "{">> \o name \o <<"}", "}">>

RecognizedMethods == {"get", "post", "put", "delete", "patch", "head", "options"}

---------------------------------------------------------------------------
(* get_request_body_schema *)

\* A schema reference {"$ref": "#/components/schemas/X"} is held as the
\* '/'-separated segments of its $ref string; None is "None".
get_request_body_schema(schema_ref, components) ==
    IF schema_ref.kind # "ref" THEN "None"
    ELSE LET ref_path == schema_ref.ref[Len(schema_ref.ref)]
         IN  IF components.hasSchemas /\ ref_path \in components.schemas
             THEN ref_path
             ELSE "None"

---------------------------------------------------------------------------
(* create_postman_request *)

\* lines 36-41: one segment of the path
UrlPart(part) ==
    IF Len(part) >= 1 /\ part[1] = "{" /\ part[Len(part)] = "}"
    THEN Placeholder(SubSeq(part, 2, Len(part) - 1))
    ELSE part

url_parts(path) == [i \in 1..Len(split(path)) |-> UrlPart(split(path)[i])]

\* lines 44-47: f"{scheme}://{host}:{port}"
UrlPrefix ==
    <<"{", "{", "s", "c", "h", "e", "m", "e", "}", "}", ":", "/", "/",
      "{", "{", "h", "o", "s", "t", "}", "}", ":",
      "{", "{", "p", "o", "r", "t", "}", "}">>

raw_url(path) == UrlPrefix \o join(url_parts(path))

\* line 54 raises KeyError for a query parameter without 'name'
RaisesKeyError(operation) ==
    /\ operation.hasParameters
    /\ \E i \in 1..Len(operation.parameters) :
          /\ operation.parameters[i].location = "query"
          /\ ~operation.parameters[i].hasName

QueryParam(param) ==
    [key |-> param.name,
     value |-> IF param.required THEN Placeholder(param.name) ELSE <<>>,
     description |-> param.description]

RECURSIVE QueryOf(_)
QueryOf(parameters) ==
    IF Len(parameters) = 0 THEN <<>>
    ELSE (IF parameters[1].location = "query"
          THEN <<QueryParam(parameters[1])>> ELSE <<>>)
         \o QueryOf(Tail(parameters))

query_params(operation) ==
    IF operation.hasParameters THEN QueryOf(operation.parameters) ELSE <<>>

ApiKeyHeader ==
    [key |-> "X-API-Key", value |-> "{{apiKey}}", type |-> "text"]
BearerHeader ==
    [key |-> "Authorization", value |-> "Bearer {{bearerToken}}", type |-> "text"]

\* lines 65-76, with `if` taken for `elif` on the second test
SecurityHeadersElif(security_req) ==
    IF "ApiKeyAuth" \in security_req THEN <<ApiKeyHeader>>
    ELSE IF "BearerAuth" \in security_req THEN <<BearerHeader>>
    ELSE <<>>

\* lines 65-76: the headers of one security requirement
SecurityHeaders(security_req) ==
    (IF "ApiKeyAuth" \in security_req THEN <<ApiKeyHeader>> ELSE <<>>)
    \o (IF "BearerAuth" \in security_req THEN <<BearerHeader>> ELSE <<>>)

RECURSIVE HeadersOf(_)
HeadersOf(security) ==
    IF Len(security) = 0 THEN <<>>
    ELSE SecurityHeaders(security[1]) \o HeadersOf(Tail(security))

headers(operation) ==
    IF operation.hasSecurity THEN HeadersOf(operation.security) ELSE <<>>

GenericBody ==
    [mode |-> "raw",
     raw |-> "{\n  \"example\": \"Replace with actual request data\"\n}",
     options |-> [raw |-> [language |-> "json"]]]

\* lines 79-95 with the body emitted only when the reference resolves
RequestBodyResolved(operation, components) ==
    IF /\ operation.requestBody.present
       /\ operation.requestBody.json
       /\ get_request_body_schema(operation.requestBody.schema, components) # "None"
    THEN <<GenericBody>>
    ELSE <<>>

\* lines 79-95: <<>> is None, schema kinds "absent" and "empty" are falsy
RequestBody(operation, components) ==
    IF /\ operation.requestBody.present
       /\ operation.requestBody.json
       /\ operation.requestBody.schema.kind = "ref"
    THEN <<GenericBody>>
    ELSE <<>>

create_postman_request(path, method, operation, components) ==
    [name |-> IF operation.hasSummary THEN operation.summary
              ELSE <<upper(method), " ">> \o path,
     request |-> [method |-> upper(method),
                  header |-> headers(operation),
                  url |-> [raw |-> raw_url(path),
                           host |-> <<UrlPrefix>>,
                           path |-> SelectSeq(url_parts(path), LAMBDA p : p # <<>>),
                           query |-> query_params(operation)],
                  body |-> RequestBody(operation, components)],
     response |-> <<>>]

---------------------------------------------------------------------------
(* create_postman_collection *)

\* openapi_spec.get('paths', {})
PathsOf(doc) == IF doc.hasPaths THEN doc.paths ELSE <<>>

\* openapi_spec.get('components', {})
ComponentsOf(doc) ==
    IF doc.hasComponents THEN doc.components
    ELSE [hasSchemas |-> FALSE, schemas |-> {}]

RECURSIVE Triples(_, _)
\* the (path, method, operation) triples of one path, in methods.items() order
Triples(path, methods) ==
    IF Len(methods) = 0 THEN <<>>
    ELSE <<[path |-> path, method |-> methods[1].method,
            operation |-> methods[1].operation]>>
         \o Triples(path, Tail(methods))

RECURSIVE TraversalOf(_)
\* lines 125-126: the nested loops, paths.items() then methods.items()
TraversalOf(paths) ==
    IF Len(paths) = 0 THEN <<>>
    ELSE Triples(paths[1].path, paths[1].methods) \o TraversalOf(Tail(paths))

Traversal(doc) == TraversalOf(PathsOf(doc))

\* line 127 without the lower(): the method key compared as written
IsRecognizedCaseSensitive(method) == method \in RecognizedMethods

\* line 127
IsRecognized(method) == lower(method) \in RecognizedMethods

\* line 130 reading only the first tag of the list
OperationTagsFirstOnly(operation) ==
    IF operation.hasTags
    THEN (IF Len(operation.tags) = 0 THEN <<>> ELSE <<operation.tags[1]>>)
    ELSE <<"untagged">>

\* line 130: operation.get('tags', ['untagged'])
OperationTags(operation) ==
    IF operation.hasTags THEN operation.tags ELSE <<"untagged">>

HasGroup(groups, tag) == \E i \in 1..Len(groups) : groups[i].tag = tag

GroupIndex(groups, tag) == CHOOSE i \in 1..Len(groups) : groups[i].tag = tag

\* line 133 putting the new key before the existing ones
NewGroupFirst(groups, tag) == <<[tag |-> tag, operations |-> <<>>]>> \o groups

\* line 133: tag_groups[tag] = [] adds the key after the existing ones
NewGroup(groups, tag) == Append(groups, [tag |-> tag, operations |-> <<>>])

\* line 134 inserting at the head of the list
PrependOperation(operations, triple) == <<triple>> \o operations

\* line 134: tag_groups[tag].append(...)
AppendOperation(operations, triple) == Append(operations, triple)

\* lines 132-134 for one tag
AddToGroup(groups, tag, triple) ==
    LET g == IF HasGroup(groups, tag) THEN groups ELSE NewGroup(groups, tag)
        i == GroupIndex(g, tag)
    IN  [g EXCEPT ![i].operations = AppendOperation(g[i].operations, triple)]

RECURSIVE AddToGroups(_, _, _)
\* lines 131-134: the loop over the operation's tags
AddToGroups(groups, tags, triple) ==
    IF Len(tags) = 0 THEN groups
    ELSE AddToGroups(AddToGroup(groups, tags[1], triple), Tail(tags), triple)

\* lines 139-147: the folder of one tag group
Folder(group, components) ==
    [name |-> FolderName(group.tag),
     item |-> [j \in 1..Len(group.operations) |->
                 create_postman_request(group.operations[j].path,
                                        group.operations[j].method,
                                        group.operations[j].operation,
                                        components)]]

\* line 141 raises inside the loop of line 140
FolderRaises(group) ==
    \E j \in 1..Len(group.operations) : RaisesKeyError(group.operations[j].operation)

Variables ==
    <<[key |-> "scheme", value |-> "http", type |-> "string"],
      [key |-> "host", value |-> "localhost", type |-> "string"],
      [key |-> "port", value |-> "8010", type |-> "string"],
      [key |-> "apiKey", value |-> "", type |-> "string"],
      [key |-> "bearerToken", value |-> "", type |-> "string"]>>

SchemaUrl == "https://schema.getpostman.com/json/collection/v2.1.0/collection.json"

\* lines 150-184
Collection(doc, folders) ==
    [info |-> [name |-> doc.info.title,
               description |-> doc.info.description,
               schema |-> SchemaUrl],
     item |-> folders,
     variable |-> Variables]

---------------------------------------------------------------------------
(* The run: main() calling create_postman_collection, then writing *)

\* one pass of the loop body of lines 126-134
GroupOperation ==
    /\ pc = "create"
    /\ k <= Len(Traversal(openapi_spec))
    /\ LET t == Traversal(openapi_spec)[k]
       IN  tag_groups' =
              IF IsRecognized(t.method)
              THEN AddToGroups(tag_groups, OperationTags(t.operation), t)
              ELSE tag_groups
    /\ k' = k + 1
    /\ UNCHANGED <<openapi_spec, pc, items, collection, written>>

\* one pass of the loop body of lines 138-147; a KeyError of line 54 leaves
\* create_postman_collection and main
BuildFolder ==
    /\ pc = "create"
    /\ k > Len(Traversal(openapi_spec))
    /\ Len(items) < Len(tag_groups)
    /\ LET group == tag_groups[Len(items) + 1]
       IN  IF FolderRaises(group)
           THEN /\ pc' = "error"
                /\ UNCHANGED items
           ELSE /\ items' = Append(items, Folder(group, ComponentsOf(openapi_spec)))
                /\ UNCHANGED pc
    /\ UNCHANGED <<openapi_spec, k, tag_groups, collection, written>>

\* lines 150-186; openapi_spec['info'] raises KeyError when the key is missing
Assemble ==
    /\ pc = "create"
    /\ k > Len(Traversal(openapi_spec))
    /\ Len(items) = Len(tag_groups)
    /\ IF openapi_spec.hasInfo
       THEN /\ collection' = <<Collection(openapi_spec, items)>>
            /\ pc' = "write"
       ELSE /\ pc' = "error"
            /\ UNCHANGED collection
    /\ UNCHANGED <<openapi_spec, k, tag_groups, items, written>>

\* main() lines 204-209
WriteOutput ==
    /\ pc = "write"
    /\ written' = collection
    /\ pc' = "done"
    /\ UNCHANGED <<openapi_spec, k, tag_groups, items, collection>>

Next == GroupOperation \/ BuildFolder \/ Assemble \/ WriteOutput

\* the state when main() has loaded `doc` and enters create_postman_collection
Start(doc) ==
    /\ openapi_spec = doc
    /\ pc = "create"
    /\ k = 1
    /\ tag_groups = <<>>
    /\ items = <<>>
    /\ collection = <<>>
    /\ written = <<>>

---------------------------------------------------------------------------
(* Input families: the documents the runs start from *)

NoRequestBody ==
    [present |-> FALSE, json |-> FALSE, schema |-> [kind |-> "absent", ref |-> <<>>]]

\* an operation with none of the optional keys
BaseOperation ==
    [hasSummary |-> FALSE, summary |-> <<>>,
     hasTags |-> FALSE, tags |-> <<>>,
     hasParameters |-> FALSE, parameters |-> <<>>,
     hasSecurity |-> FALSE, security |-> <<>>,
     requestBody |-> NoRequestBody]

Info == [title |-> "MIRADOR-CORE API", description |-> "Observability platform API"]

NoComponents == [hasSchemas |-> FALSE, schemas |-> {}]

\* a document with `info`, with `paths` and without `components`
BaseDocument(paths) ==
    [hasInfo |-> TRUE, info |-> Info,
     hasPaths |-> TRUE, paths |-> paths,
     hasComponents |-> FALSE, components |-> NoComponents]

SeqsUpTo(S, n) == UNION {[1..m -> S] : m \in 0..n}

PathUsers == <<"/", "u">>
PathUserId == <<"/", "u", "/", "{", "i", "}">>

PathKeys == {PathUsers, PathUserId}
MethodKeys == {"get", "POST", "trace"}
Tags == {"users", "kpi-defs"}

\* the operations of the grouping family: `tags` absent, empty, one tag, two tags
GroupingOperations ==
    {BaseOperation}
    \cup {[BaseOperation EXCEPT !.hasTags = TRUE, !.tags = ts] :
            ts \in {<<>>} \cup {<<a>> : a \in Tags}
                   \cup {<<a, b>> : <<a, b>> \in {<<x, y>> \in Tags \X Tags : x # y}}}

MethodEntries == [method : MethodKeys, operation : GroupingOperations]

\* the `methods` maps with n entries: a dict has no key twice
MethodMaps(n) ==
    {m \in [1..n -> MethodEntries] :
        \A i, j \in 1..n : i # j => m[i].method # m[j].method}

MethodMapsUpTo(n) == UNION {MethodMaps(m) : m \in 0..n}

\* the `paths` maps with the two keys p, q in this order and at most n operations
TwoPaths(p, q, n) ==
    UNION {{<<[path |-> p, methods |-> m1], [path |-> q, methods |-> m2]>> :
              m1 \in MethodMaps(a), m2 \in MethodMapsUpTo(n - a)} : a \in 0..n}

\* the `paths` maps over PathKeys with at most n operations in all
PathMaps(n) ==
    {<<>>}
    \cup {<<[path |-> p, methods |-> m]>> : p \in PathKeys, m \in MethodMapsUpTo(n)}
    \cup TwoPaths(PathUsers, PathUserId, n)
    \cup TwoPaths(PathUserId, PathUsers, n)

GroupingDocuments == {BaseDocument(paths) : paths \in PathMaps(MaxOps)}

\* documents with or without the top-level keys `info` and `paths`
TopLevelDocuments ==
    {[BaseDocument(IF hasPaths THEN paths ELSE <<>>)
        EXCEPT !.hasInfo = hasInfo, !.hasPaths = hasPaths] :
     hasInfo \in BOOLEAN, hasPaths \in BOOLEAN, paths \in PathMaps(1)}

Init == \E doc \in GroupingDocuments \cup TopLevelDocuments : Start(doc)

Spec == Init /\ [][Next]_vars

---------------------------------------------------------------------------
(* Input families of the request builder *)

\* a document with the single operation `get` on `path`
OneOperation(path, operation) ==
    BaseDocument(<<[path |-> path,
                    methods |-> <<[method |-> "get", operation |-> operation]>>]>>)

PathChars == {"/", "{", "}", "a", "b"}

\* every brace of the template belongs to a {name} with a non-empty name
WellFormedTemplate(path) ==
    \A x \in 1..Len(path) :
       /\ path[x] = "{" =>
             \E y \in (x+2)..Len(path) :
                path[y] = "}" /\ \A z \in (x+1)..(y-1) : path[z] \notin {"/", "{", "}"}
       /\ path[x] = "}" =>
             \E y \in 1..(x-2) :
                path[y] = "{" /\ \A z \in (y+1)..(x-1) : path[z] \notin {"/", "{", "}"}

\* path templates: a "/" and at most MaxPathLen - 1 more characters
PathTemplates ==
    {path \in {<<"/">> \o s : s \in SeqsUpTo(PathChars, MaxPathLen - 1)} :
        WellFormedTemplate(path)}

PathDocuments == {OneOperation(path, BaseOperation) : path \in PathTemplates}

NameQ == <<"q">>
NameR == <<"r">>

\* [location: `in`; name: absent when ~hasName; required: False when absent]
Parameters ==
    {[location |-> "query", hasName |-> TRUE, name |-> NameQ, required |-> TRUE,
      description |-> "filter"],
     [location |-> "query", hasName |-> TRUE, name |-> NameR, required |-> FALSE,
      description |-> ""],
     [location |-> "query", hasName |-> FALSE, name |-> <<>>, required |-> FALSE,
      description |-> ""],
     [location |-> "path", hasName |-> TRUE, name |-> <<"i">>, required |-> TRUE,
      description |-> ""],
     [location |-> "header", hasName |-> FALSE, name |-> <<>>, required |-> FALSE,
      description |-> ""]}

\* `get` with a parameters list, then `POST` with a summary and no parameters
ParameterDocuments ==
    {BaseDocument(<<[path |-> PathUserId,
                     methods |->
                        <<[method |-> "get",
                           operation |-> [BaseOperation EXCEPT
                                            !.hasTags = TRUE, !.tags = <<"users">>,
                                            !.hasParameters = TRUE,
                                            !.parameters = ps]],
                          [method |-> "POST",
                           operation |-> [BaseOperation EXCEPT
                                            !.hasSummary = TRUE,
                                            !.summary = <<"Create KPI definition">>,
                                            !.hasTags = TRUE, !.tags = <<"kpi-defs">>]]>>]>>) :
     ps \in SeqsUpTo(Parameters, MaxParams)}

\* a security requirement is the set of scheme names it holds
Requirements ==
    {{}, {"ApiKeyAuth"}, {"BearerAuth"}, {"ApiKeyAuth", "BearerAuth"}, {"OAuth2"}}

SecurityDocuments ==
    {OneOperation(PathUsers, BaseOperation)}
    \cup {OneOperation(PathUsers,
                       [BaseOperation EXCEPT !.hasSecurity = TRUE, !.security = sec]) :
           sec \in SeqsUpTo(Requirements, MaxSecurity)}

RefKpi == <<"#", "components", "schemas", "Kpi">>
RefMissing == <<"#", "components", "schemas", "Missing">>

RequestBodies ==
    {NoRequestBody,
     [present |-> TRUE, json |-> FALSE, schema |-> [kind |-> "absent", ref |-> <<>>]],
     [present |-> TRUE, json |-> TRUE, schema |-> [kind |-> "absent", ref |-> <<>>]],
     [present |-> TRUE, json |-> TRUE, schema |-> [kind |-> "empty", ref |-> <<>>]],
     [present |-> TRUE, json |-> TRUE, schema |-> [kind |-> "ref", ref |-> RefKpi]],
     [present |-> TRUE, json |-> TRUE, schema |-> [kind |-> "ref", ref |-> RefMissing]]}

\* components.schemas holding "Kpi", components without schemas, no components
ComponentChoices ==
    {[hasComponents |-> TRUE, components |-> [hasSchemas |-> TRUE, schemas |-> {"Kpi"}]],
     [hasComponents |-> TRUE, components |-> NoComponents],
     [hasComponents |-> FALSE, components |-> NoComponents]}

BodyDocuments ==
    {[OneOperation(PathUsers, [BaseOperation EXCEPT !.requestBody = rb])
        EXCEPT !.hasComponents = c.hasComponents, !.components = c.components,
               !.hasInfo = hasInfo] :
     rb \in RequestBodies, c \in ComponentChoices, hasInfo \in BOOLEAN}

InitRequest ==
    \E doc \in PathDocuments \cup ParameterDocuments
                \cup SecurityDocuments \cup BodyDocuments : Start(doc)

SpecRequest == InitRequest /\ [][Next]_vars

---------------------------------------------------------------------------
(* Vocabulary of the properties *)

\* create_postman_collection has returned a collection
Returned == collection # <<>>

Result == collection[1]

Trav == Traversal(openapi_spec)

\* positions of the traversal whose method key, lower-cased, is an HTTP method
RecognizedPositions ==
    {i \in 1..Len(Trav) :
        lower(Trav[i].method) \in {"get", "post", "put", "delete", "patch", "head", "options"}}

\* the tags an operation declares, "untagged" standing for an absent `tags` key
DeclaredTags(operation) ==
    IF operation.hasTags THEN operation.tags ELSE <<"untagged">>

ItemOf(t) ==
    create_postman_request(t.path, t.method, t.operation, ComponentsOf(openapi_spec))

RECURSIVE SumLen(_)
SumLen(folders) ==
    IF Len(folders) = 0 THEN 0 ELSE Len(folders[1].item) + SumLen(Tail(folders))

\* request items summed over all folders
TotalItems(c) == SumLen(c.item)

RECURSIVE SumTags(_)
SumTags(positions) ==
    IF positions = {} THEN 0
    ELSE LET i == CHOOSE x \in positions : TRUE
         IN  Len(DeclaredTags(Trav[i].operation)) + SumTags(positions \ {i})

\* how often x occurs in the sequence s
Count(s, x) == Cardinality({i \in 1..Len(s) : s[i] = x})

\* how often item x occurs in the folders named `name`
Occurrences(c, name, x) ==
    Cardinality({<<f, j>> \in (1..Len(c.item)) \X (1..TotalItems(c)) :
                    /\ c.item[f].name = name
                    /\ j <= Len(c.item[f].item)
                    /\ c.item[f].item[j] = x})

\* how often item x occurs in the collection
OccurrencesAnywhere(c, x) ==
    Cardinality({<<f, j>> \in (1..Len(c.item)) \X (1..TotalItems(c)) :
                    /\ j <= Len(c.item[f].item)
                    /\ c.item[f].item[j] = x})

---------------------------------------------------------------------------
(* C1 *)

\* C1 as stated, read on the documents in which no tags list is empty: the
\* number of items over all folders equals the number of (path, method) pairs
\* with a recognized method.
C1_ItemsEqualPairs ==
    (Returned /\ \A i \in RecognizedPositions : DeclaredTags(Trav[i].operation) # <<>>)
        => TotalItems(Result) = Cardinality(RecognizedPositions)

\* C1 amended: the number of items over all folders equals the sum, over the
\* (path, method) pairs with a recognized method, of the number of entries of
\* the operation's tags list, an absent `tags` key counting as one entry.
C1_ItemsEqualTagEntries ==
    Returned => TotalItems(Result) = SumTags(RecognizedPositions)

\* a returned collection holding more items than there are recognized pairs,
\* one of them under an upper-case method key
C1_Witness ==
    /\ Returned
    /\ TotalItems(Result) > Cardinality(RecognizedPositions)
    /\ \E i \in RecognizedPositions : Trav[i].method = "POST"

---------------------------------------------------------------------------
(* C6 *)

RECURSIVE FlatTagsOf(_)
\* the tags met along the traversal: recognized operations in document order,
\* each operation's tags in its own order
FlatTagsOf(triples) ==
    IF Len(triples) = 0 THEN <<>>
    ELSE (IF lower(triples[1].method)
                \in {"get", "post", "put", "delete", "patch", "head", "options"}
          THEN DeclaredTags(triples[1].operation) ELSE <<>>)
         \o FlatTagsOf(Tail(triples))

FlatTags == FlatTagsOf(Trav)

FirstOccurrence(t) == CHOOSE i \in 1..Len(FlatTags) :
                         FlatTags[i] = t /\ \A j \in 1..(i-1) : FlatTags[j] # t

TagSet == {FlatTags[i] : i \in 1..Len(FlatTags)}

\* C6: the folders are those of the tags met along the traversal, one folder
\* per tag, in the order in which each tag is first met; every operation that
\* carries a tag has its item in that tag's folder.
C6_FolderOrder ==
    Returned =>
        /\ Len(Result.item) = Cardinality(TagSet)
        /\ \A f \in 1..Len(Result.item) :
              \E t \in TagSet :
                 /\ Result.item[f].name = FolderName(t)
                 /\ Cardinality({u \in TagSet : FirstOccurrence(u) < FirstOccurrence(t)})
                        = f - 1
        /\ \A i \in RecognizedPositions :
              \A n \in 1..Len(DeclaredTags(Trav[i].operation)) :
                 LET name == FolderName(DeclaredTags(Trav[i].operation)[n])
                 IN  /\ Count([f \in 1..Len(Result.item) |-> Result.item[f].name], name) = 1
                     /\ Occurrences(Result, name, ItemOf(Trav[i])) >= 1

\* two folders, the second tag first met before the first tag is met again,
\* and a folder holding operations of two different paths
C6_Witness ==
    /\ Returned
    /\ Len(Result.item) >= 2
    /\ Len(FlatTags) >= 3
    /\ \E f \in 1..Len(Result.item) :
          /\ Len(Result.item[f].item) = 2
          /\ Result.item[f].item[1].request.url.raw # Result.item[f].item[2].request.url.raw

---------------------------------------------------------------------------
(* C7 *)

\* C7 as stated: a recognized operation without tags (key absent, or an empty
\* list) has its item exactly once in the collection, in the folder of
\* "untagged".
C7_UntaggedFolder ==
    Returned =>
        \A i \in RecognizedPositions :
           (~Trav[i].operation.hasTags \/ Trav[i].operation.tags = <<>>) =>
               /\ Occurrences(Result, FolderName("untagged"), ItemOf(Trav[i])) = 1
               /\ OccurrencesAnywhere(Result, ItemOf(Trav[i])) = 1

---------------------------------------------------------------------------
(* C9 *)

\* C9: an operation declaring several tags has an item in the folder of each
\* of its tags, and it is the same item, the one built from the operation.
C9_Replicated ==
    Returned =>
        \A i \in RecognizedPositions :
           (Trav[i].operation.hasTags /\ Len(Trav[i].operation.tags) >= 2) =>
               \A n \in 1..Len(Trav[i].operation.tags) :
                  Occurrences(Result, FolderName(Trav[i].operation.tags[n]),
                              ItemOf(Trav[i])) >= 1

\* an operation with two different tags, compiled into a returned collection
C9_Witness ==
    /\ Returned
    /\ \E i \in RecognizedPositions :
          /\ Trav[i].operation.hasTags
          /\ Len(Trav[i].operation.tags) = 2
          /\ Trav[i].operation.tags[1] # Trav[i].operation.tags[2]
          /\ Len(Result.item) >= 2

---------------------------------------------------------------------------
(* C10 *)

\* C10: in every folder, the item of an operation traversed earlier stands
\* before the item of an operation traversed later.
C10_ItemOrder ==
    Returned =>
        \A f \in 1..Len(Result.item) :
           \A i, j \in RecognizedPositions :
              i < j =>
                 \A a, b \in 1..Len(Result.item[f].item) :
                    (/\ Result.item[f].item[a] = ItemOf(Trav[i])
                     /\ Result.item[f].item[b] = ItemOf(Trav[j])) => a < b

\* a folder with the items of two operations
C10_Witness ==
    /\ Returned
    /\ \E f \in 1..Len(Result.item) :
          \E i, j \in RecognizedPositions :
             /\ i < j
             /\ Len(Result.item[f].item) >= 2
             /\ Result.item[f].item[1] = ItemOf(Trav[i])
             /\ Result.item[f].item[2] = ItemOf(Trav[j])

---------------------------------------------------------------------------
(* C3 *)

\* C3 as stated: for a document without `info` or without `paths` no
\* collection is produced and nothing is written, and the run ends in error.
C3_MissingKeyRejected ==
    (~openapi_spec.hasInfo \/ ~openapi_spec.hasPaths) =>
        /\ collection = <<>>
        /\ written = <<>>
        /\ pc \in {"create", "error"}

---------------------------------------------------------------------------
(* Properties of the built items.  The item at place j of folder f was built *)
(* from the triple at place j of the f-th tag group (lines 138-142).         *)

Places ==
    {<<f, j>> \in (1..Len(tag_groups)) \X (1..Len(Trav)) :
        /\ f <= Len(Result.item)
        /\ j <= Len(tag_groups[f].operations)}

BuiltItem(pl) == Result.item[pl[1]].item[pl[2]]

Source(pl) == tag_groups[pl[1]].operations[pl[2]]

---------------------------------------------------------------------------
(* C2 *)

NameChar(c) == c \notin {"/", "{", "}"}

\* the names p with {p} somewhere in the template
PathParameters(path) ==
    {SubSeq(path, a + 1, b - 1) : <<a, b>> \in
        {<<x, y>> \in (1..Len(path)) \X (1..Len(path)) :
            /\ x + 1 < y
            /\ path[x] = "{"
            /\ path[y] = "}"
            /\ \A z \in (x+1)..(y-1) : NameChar(path[z])}}

\* C2 as stated: url.raw of the built item contains {{p}} for every path
\* parameter {p} of the path template.
C2_PlaceholderForEveryParameter ==
    Returned =>
        \A pl \in Places :
           \A p \in PathParameters(Source(pl).path) :
              Contains(BuiltItem(pl).request.url.raw, Placeholder(p))

---------------------------------------------------------------------------
(* C4 *)

NamelessEntry(operation) ==
    /\ operation.hasParameters
    /\ \E n \in 1..Len(operation.parameters) : ~operation.parameters[n].hasName

RECURSIVE WellFormedQuery(_)
\* the query entries of the parameters that have a name and are `in: query`
WellFormedQuery(parameters) ==
    IF Len(parameters) = 0 THEN <<>>
    ELSE (IF parameters[1].hasName /\ parameters[1].location = "query"
          THEN <<[key |-> parameters[1].name,
                  value |-> IF parameters[1].required
                            THEN Placeholder(parameters[1].name) ELSE <<>>,
                  description |-> parameters[1].description]>>
          ELSE <<>>)
         \o WellFormedQuery(Tail(parameters))

\* C4 as stated: a document with `info` in which an operation has a
\* parameter entry without `name` is compiled without error, and once the
\* collection is returned every operation has its item, whose query list is
\* that of its well-formed query parameters.
C4_NamelessParameterSkipped ==
    (/\ openapi_spec.hasInfo
     /\ \E i \in RecognizedPositions : NamelessEntry(Trav[i].operation)) =>
        /\ pc # "error"
        /\ Returned =>
              /\ TotalItems(Result) = Cardinality(RecognizedPositions)
              /\ \A pl \in Places :
                    Source(pl).operation.hasParameters =>
                       BuiltItem(pl).request.url.query
                          = WellFormedQuery(Source(pl).operation.parameters)

---------------------------------------------------------------------------
(* C5 *)

JsonReference(operation) ==
    /\ operation.requestBody.present
    /\ operation.requestBody.json
    /\ operation.requestBody.schema.kind = "ref"

Unresolved(operation) ==
    /\ JsonReference(operation)
    /\ get_request_body_schema(operation.requestBody.schema,
                               ComponentsOf(openapi_spec)) = "None"

\* C5: an operation whose application/json schema reference does not
\* resolve raises no error (a document with `info` does not end in error),
\* and the item of every operation with such a reference, resolved or not,
\* carries the generic placeholder body.
C5_UnresolvedReferenceBody ==
    /\ (/\ openapi_spec.hasInfo
        /\ \E i \in 1..Len(Trav) : Unresolved(Trav[i].operation)
        /\ \A i \in 1..Len(Trav) : ~NamelessEntry(Trav[i].operation))
          => pc # "error"
    /\ Returned =>
          /\ \A i \in RecognizedPositions :
                JsonReference(Trav[i].operation) =>
                   OccurrencesAnywhere(Result, ItemOf(Trav[i])) >= 1
          /\ \A pl \in Places :
                JsonReference(Source(pl).operation) =>
                   BuiltItem(pl).request.body = <<GenericBody>>

\* written collections with the item of an unresolved reference: one where
\* components.schemas lacks the name, one where there is no components.schemas
C5_Witness ==
    /\ pc = "done"
    /\ \E pl \in Places :
          /\ Unresolved(Source(pl).operation)
          /\ BuiltItem(pl).request.body = <<GenericBody>>
          /\ \/ ~ComponentsOf(openapi_spec).hasSchemas
             \/ ComponentsOf(openapi_spec).schemas # {}

---------------------------------------------------------------------------
(* C8 *)

SecurityOf(operation) == IF operation.hasSecurity THEN operation.security ELSE <<>>

\* requirement entries among the first n that name `scheme`
Naming(security, scheme, n) ==
    Cardinality({i \in 1..n : scheme \in security[i]})

\* headers contributed by the first n requirement entries
Contributed(security, n) ==
    Naming(security, "BearerAuth", n) + Naming(security, "ApiKeyAuth", n)

\* C8: the header list holds one Authorization header per requirement entry
\* naming BearerAuth and one X-API-Key header per entry naming ApiKeyAuth and
\* nothing else; the headers of the first n entries come before those of the
\* later ones; security: [{BearerAuth: []}] gives the one Authorization header.
C8_SecurityHeaders ==
    Returned =>
        \A pl \in Places :
           LET sec == SecurityOf(Source(pl).operation)
               h == BuiltItem(pl).request.header
           IN  /\ \A i \in 1..Len(h) : h[i] \in {BearerHeader, ApiKeyHeader}
               /\ Len(h) = Contributed(sec, Len(sec))
               /\ \A n \in 0..Len(sec) :
                     LET first == SubSeq(h, 1, Contributed(sec, n))
                     IN  /\ Count(first, BearerHeader) = Naming(sec, "BearerAuth", n)
                         /\ Count(first, ApiKeyHeader) = Naming(sec, "ApiKeyAuth", n)
               /\ sec = <<{"BearerAuth"}>> => h = <<BearerHeader>>

\* an item with two Authorization headers and an X-API-Key header, built from
\* a list in which one entry names both schemes
C8_Witness ==
    /\ Returned
    /\ \E pl \in Places :
          /\ Count(BuiltItem(pl).request.header, BearerHeader) = 2
          /\ Count(BuiltItem(pl).request.header, ApiKeyHeader) = 1
          /\ \E i \in 1..Len(SecurityOf(Source(pl).operation)) :
                SecurityOf(Source(pl).operation)[i] = {"ApiKeyAuth", "BearerAuth"}

============================================================================
